---- MODULE Spec2Model ----
(***************************************************************************)
(* Model of src/src/services/socket.js (class SocketService).              *)
(*                                                                         *)
(* Text is a sequence of one-character strings.  Every character of the    *)
(* model is one token of the JSON text on the wire:                        *)
(*   "{" "}"   open and close the message object,                          *)
(*   "a" "w"   the op of the message ("w" is the op 'welcome'),            *)
(*   "1" "2"   data: the text of a {markets, indexes} object,              *)
(*   "0"       the JSON number 0 (alone), or a data token inside an object,*)
(*   "#"       the frame delimiter (inside an object: a '#' in a string).  *)
(***************************************************************************)
EXTENDS Integers, Sequences, FiniteSets, TLC

VARIABLES
  pendingSocketData,   \* this.pendingSocketData: ONE field of the service
  rx,                  \* history: every character fed to parseSocketData
  out,                 \* history: every json handed to the callback
  sent,                \* history: every message encoded and written to the buffer's socket
  \* hub (createCluster)
  clusteredCollectors, \* this.clusteredCollectors: accepted sockets, in push order
  socketState,         \* per accepted socket: "none", "open" or "destroyed"
  socketMarkets,       \* socket.markets
  socketIndexes,       \* socket.indexes
  got,                 \* history: per socket, the jsons its callback received
  emitted,             \* history: per socket, the ops its callback gave to this.emit
  alone,               \* reference: per socket, a buffer fed that socket's chunks only
  want,                \* reference: per socket, the jsons decoded from alone
  nData,               \* number of 'data' events so far
  errs,                \* history: per socket and frame that failed to parse,
                       \* whether the socket had a record when its chunk came
  \* spoke (connectToCluster, reconnectCluster, close)
  clusterSocket,       \* this.clusterSocket: a socket, or 0 for null
  clusterConnectionTimeout, \* this._clusterConnectionTimeout: a timer, or 0
  sock,                \* per outbound socket: "none", "connecting", "connected",
                       \* "ended" (end() was called) or "destroyed"
  closePending,        \* the destroyed sockets whose 'close' event is still to come
  welcomed,            \* history: the sockets the welcome frame was written to
  timers,              \* the timers that are set and have neither fired nor been cleared
  created,             \* number of outbound sockets created so far
  closeRequested       \* history: close() has been called

codecVars == <<rx, out, sent>>

hubVars == <<clusteredCollectors, socketState, socketMarkets, socketIndexes,
             got, emitted, alone, want, nData, errs>>

spokeVars == <<clusterSocket, clusterConnectionTimeout, sock, closePending,
               welcomed, timers, created, closeRequested>>

----------------------------------------------------------------------------
(* Bounds *)

\* longest stream fed to one buffer in the codec specification
MaxStream == 6

\* number of 'data' events the hub receives
MaxData == 4

\* number of outbound sockets the spoke creates
MaxSockets == 3

\* longest stream written in the wire specification
MaxWire == 10

----------------------------------------------------------------------------
(* Text helpers *)

Delim == "#"

Ops == {"a", "w"}

DataTokens == {"0", "1", "2", "#"}

\* mutant: indexOf('#') > 0, a delimiter at the start of the chunk is missed
HasDelimAfterStart(s) == \E i \in 2..Len(s) : s[i] = Delim

\* stringData.indexOf('#') !== -1
HasDelim(s) == \E i \in 1..Len(s) : s[i] = Delim

\* stringData[stringData.length - 1] !== '#'
IncompleteData(s) == Len(s) = 0 \/ s[Len(s)] # Delim

RECURSIVE SplitFrom(_, _, _)
SplitFrom(s, i, cur) ==
  IF i > Len(s) THEN <<cur>>
  ELSE IF s[i] = Delim THEN <<cur>> \o SplitFrom(s, i + 1, <<>>)
  ELSE SplitFrom(s, i + 1, Append(cur, s[i]))

\* stringData.split('#'): one more segment than there are delimiters
Split(s) == SplitFrom(s, 1, <<>>)

\* JSON.parse on the token grammar: the number 0, or an object
\* "{" op data* "}"; anything else throws (ok = FALSE).
JSONParse(s) ==
  IF s = <<"0">>
  THEN [ok |-> TRUE, json |-> [type |-> "number", op |-> "", data |-> <<>>]]
  ELSE IF /\ Len(s) >= 3
          /\ s[1] = "{"
          /\ s[Len(s)] = "}"
          /\ s[2] \in Ops
          /\ \A i \in 3..(Len(s) - 1) : s[i] \in DataTokens
  THEN [ok |-> TRUE,
        json |-> [type |-> "object", op |-> s[2], data |-> SubSeq(s, 3, Len(s) - 1)]]
  ELSE [ok |-> FALSE, json |-> [type |-> "undefined", op |-> "", data |-> <<>>]]

\* if (json): 0 is falsy, an object is truthy, undefined (parse threw) is falsy
Truthy(json) == json.type = "object"

\* mutant: the delimiter is not appended to the encoding
EncodeNoDelim(m) == <<"{", m.op>> \o m.data \o <<"}">>

\* JSON.stringify({op, data}) + '#'
Encode(m) == <<"{", m.op>> \o m.data \o <<"}", Delim>>

----------------------------------------------------------------------------
(* parseSocketData *)

\* a field that was never assigned, or was assigned undefined
Undefined == [defined |-> FALSE, items |-> {}]

\* the value of data.data of a decoded message: the {markets, indexes}
\* object the data token stands for; any other data has neither property
WelcomeData(data) ==
  IF data = <<"1">>
  THEN [markets |-> [defined |-> TRUE, items |-> {<<"X", ":", "b">>, <<"B", "-", "U">>}],
        indexes |-> [defined |-> TRUE, items |-> {<<"i">>}]]
  ELSE IF data = <<"2">>
  THEN [markets |-> [defined |-> TRUE, items |-> {<<"X", ":", "b">>, <<"Y", ":", "e">>}],
        indexes |-> [defined |-> TRUE, items |-> {<<"i">>, <<"j">>}]]
  ELSE [markets |-> Undefined, indexes |-> Undefined]

\* a subscriber of this.emit(op, data) that throws on the data token "0"
SubscriberThrows(json) == \E i \in 1..Len(json.data) : json.data[i] = "0"

\* callback(json) throws.  callback is "hub" (the function bound at lines
\* 151-165: destructuring undefined and undefined.join throw, this.emit may)
\* or "emit" (the function bound at lines 75-77: this.emit may)
CallbackThrows(callback, json) ==
  IF callback = "hub" /\ json.op = "w"
  THEN Len(json.data) = 0 \/ ~WelcomeData(json.data).indexes.defined
  ELSE SubscriberThrows(json)

\* mutant: callback(json) outside any try: its exception leaves the loop
InvokeNoCatch(callback, json) ==
  IF CallbackThrows(callback, json) THEN "propagated" ELSE "returned"

\* try { callback(json) } catch (error) { console.error(...) }
Invoke(callback, json) ==
  IF CallbackThrows(callback, json) THEN "caught" ELSE "returned"

\* the body of the for loop, from segment i on.  acc.calls are the jsons
\* handed to callback(json), acc.parsed the strings handed to JSON.parse, in
\* order; left is TRUE when an exception left the loop.
RECURSIVE ParseLoop(_, _, _, _, _, _)
ParseLoop(callback, chunks, i, incompleteData, pending, acc) ==
  IF i > Len(chunks)
  THEN [pending |-> pending, calls |-> acc.calls, parsed |-> acc.parsed, left |-> FALSE]
  ELSE IF Len(chunks[i]) = 0
  THEN ParseLoop(callback, chunks, i + 1, incompleteData, pending, acc)
  ELSE LET p == pending \o chunks[i] IN
       IF i = Len(chunks) /\ incompleteData
       THEN ParseLoop(callback, chunks, i + 1, incompleteData, p, acc)
       ELSE LET r == JSONParse(p)
                called == r.ok /\ Truthy(r.json)
                acc1 == [calls |-> IF called THEN Append(acc.calls, r.json) ELSE acc.calls,
                         parsed |-> Append(acc.parsed, p)]
            IN IF called /\ Invoke(callback, r.json) = "propagated"
               THEN [pending |-> p, calls |-> acc1.calls, parsed |-> acc1.parsed,
                     left |-> TRUE]
               ELSE ParseLoop(callback, chunks, i + 1, incompleteData, <<>>, acc1)

\* parseSocketData(callback, data), on the buffer pending
ParseSocketData(callback, pending, stringData) ==
  IF HasDelim(stringData)
  THEN ParseLoop(callback, Split(stringData), 1, IncompleteData(stringData), pending,
                 [calls |-> <<>>, parsed |-> <<>>])
  ELSE [pending |-> pending \o stringData, calls |-> <<>>, parsed |-> <<>>,
        left |-> FALSE]

\* the frames of one parseSocketData call that JSON.parse threw on
ParseErrors(r) == Len(SelectSeq(r.parsed, LAMBDA p : ~JSONParse(p).ok))

----------------------------------------------------------------------------
(* Hub: createCluster *)

\* accepted connections, numbered in the order the server accepts them
Conns == {1, 2}

\* identifiers: "X:b" and "Y:e" are namespaced markets, "B-U" is a market
\* written without the ':' separator, "i" "j" "z" "X:z" are index or
\* market identifiers (z: owned by nobody)
Identifiers ==
  { <<"X", ":", "b">>, <<"Y", ":", "e">>, <<"B", "-", "U">>,
    <<"i">>, <<"j">>, <<"z">>, <<"X", ":", "z">> }

HubIdle ==
  /\ clusteredCollectors = <<>>
  /\ socketState = [c \in Conns |-> "none"]
  /\ socketMarkets = [c \in Conns |-> Undefined]
  /\ socketIndexes = [c \in Conns |-> Undefined]
  /\ got = [c \in Conns |-> <<>>]
  /\ emitted = [c \in Conns |-> <<>>]
  /\ alone = [c \in Conns |-> <<>>]
  /\ want = [c \in Conns |-> <<>>]
  /\ nData = 0
  /\ errs = [c \in Conns |-> <<>>]

\* the hub's state that the 'data' callback reads and writes
HubState ==
  [collectors |-> clusteredCollectors, markets |-> socketMarkets,
   indexes |-> socketIndexes, emitted |-> emitted]

\* mutant: a message of a socket that is not registered is not emitted
HubCallbackGated(h, c, json) ==
  IF json.op = "w"
  THEN IF Len(json.data) = 0
       THEN h
       ELSE LET d == WelcomeData(json.data)
                h1 == [h EXCEPT !.markets[c] = d.markets, !.indexes[c] = d.indexes]
            IN IF ~d.indexes.defined
               THEN h1
               ELSE [h1 EXCEPT !.collectors = Append(h.collectors, c)]
  ELSE IF \E j \in 1..Len(h.collectors) : h.collectors[j] = c
       THEN [h EXCEPT !.emitted[c] = Append(h.emitted[c], json.op)]
       ELSE h

\* the callback bound at lines 151-165, for one json on socket c.  A throw
\* (destructuring undefined, or undefined.join) is caught by parseSocketData
\* and keeps the assignments made before it.
HubCallback(h, c, json) ==
  IF json.op = "w"
  THEN IF Len(json.data) = 0
       THEN h
       ELSE LET d == WelcomeData(json.data)
                h1 == [h EXCEPT !.markets[c] = d.markets, !.indexes[c] = d.indexes]
            IN IF ~d.indexes.defined
               THEN h1
               ELSE [h1 EXCEPT !.collectors = Append(h.collectors, c)]
  ELSE [h EXCEPT !.emitted[c] = Append(h.emitted[c], json.op)]

\* mutant: a parse error removes the socket's record
OnParseErrorRemove(h, c, n) ==
  IF n > 0
  THEN [h EXCEPT !.collectors = SelectSeq(h.collectors, LAMBDA x : x # c)]
  ELSE h

\* the catch block of JSON.parse, run n times in one call: console.error only
OnParseError(h, c, n) == h

RECURSIVE HubCallbacks(_, _, _, _)
HubCallbacks(h, c, calls, i) ==
  IF i > Len(calls) THEN h
  ELSE HubCallbacks(HubCallback(h, c, calls[i]), c, calls, i + 1)

\* this.clusteredCollectors.indexOf(socket), 0 for -1
RECURSIVE IndexOfFrom(_, _, _)
IndexOfFrom(s, x, i) ==
  IF i > Len(s) THEN 0
  ELSE IF s[i] = x THEN i
  ELSE IndexOfFrom(s, x, i + 1)

IndexOf(s, x) == IndexOfFrom(s, x, 1)

\* array.splice(index, 1)
Splice(s, index) == SubSeq(s, 1, index - 1) \o SubSeq(s, index + 1, Len(s))

\* net.createServer's connection listener: the sockets are accepted in order
Accept(c) ==
  /\ socketState[c] = "none"
  /\ \A d \in Conns : d < c => socketState[d] # "none"
  /\ socketState' = [socketState EXCEPT ![c] = "open"]
  /\ pendingSocketData' = <<>>
  /\ UNCHANGED <<clusteredCollectors, socketMarkets, socketIndexes, got, emitted,
                 alone, want, nData, errs>>

\* a 'data' event of socket c
HubData(c, chunk) ==
  /\ socketState[c] = "open"
  /\ nData < MaxData
  /\ LET r == ParseSocketData("hub", pendingSocketData, chunk)
         h == OnParseError(HubCallbacks(HubState, c, r.calls, 1), c, ParseErrors(r))
         ref == ParseSocketData("hub", alone[c], chunk)
     IN /\ pendingSocketData' = r.pending
        /\ clusteredCollectors' = h.collectors
        /\ socketMarkets' = h.markets
        /\ socketIndexes' = h.indexes
        /\ emitted' = h.emitted
        /\ got' = [got EXCEPT ![c] = got[c] \o r.calls]
        /\ alone' = [alone EXCEPT ![c] = ref.pending]
        /\ want' = [want EXCEPT ![c] = want[c] \o ref.calls]
        /\ errs' = [errs EXCEPT ![c] = errs[c] \o
                     [i \in 1..ParseErrors(r) |-> IndexOf(clusteredCollectors, c) # 0]]
  /\ nData' = nData + 1
  /\ UNCHANGED socketState

\* the 'end' event of socket c
End(c) ==
  /\ socketState[c] = "open"
  /\ LET index == IndexOf(clusteredCollectors, c) IN
     clusteredCollectors' =
       IF index # 0 THEN Splice(clusteredCollectors, index) ELSE clusteredCollectors
  /\ socketState' = [socketState EXCEPT ![c] = "destroyed"]
  /\ UNCHANGED <<pendingSocketData, socketMarkets, socketIndexes, got, emitted,
                 alone, want, nData, errs>>

\* mutant: the wrong separator
IsIndexDash(market) == IndexOf(market, "-") = 0

\* market.indexOf(':') === -1
IsIndex(market) == IndexOf(market, ":") = 0

\* the loop of getNodeByMarket from j on: the socket found, 0 for undefined
RECURSIVE NodeFrom(_, _, _)
NodeFrom(market, isIndex, j) ==
  IF j > Len(clusteredCollectors) THEN 0
  ELSE IF \/ isIndex /\ market \in socketIndexes[clusteredCollectors[j]].items
          \/ ~isIndex /\ market \in socketMarkets[clusteredCollectors[j]].items
  THEN clusteredCollectors[j]
  ELSE NodeFrom(market, isIndex, j + 1)

\* mutant: the index test dropped, every identifier looked up as a market
GetNodeByMarketNoIndex(market) == NodeFrom(market, FALSE, 1)

GetNodeByMarket(market) == NodeFrom(market, IsIndex(market), 1)

\* the chunks the peers of the hub send
HubChunks ==
  { <<"{", "w", "1", "}", "#">>, <<"{", "w", "2", "}", "#">>,
    <<"{", "a", "}", "#">>, <<"{", "a">>, <<"}", "#">> }

----------------------------------------------------------------------------
(* Spoke: connectToCluster, reconnectCluster, close *)

Sockets == 1..MaxSockets

\* the state right after `this.clusterSocket = null` in the constructor
SpokeNew ==
  [clusterSocket |-> 0, timeout |-> 0, sock |-> [s \in Sockets |-> "none"],
   closePending |-> {}, timers |-> {}, created |-> 0, pending |-> <<>>]

SpokeState ==
  [clusterSocket |-> clusterSocket, timeout |-> clusterConnectionTimeout,
   sock |-> sock, closePending |-> closePending, timers |-> timers,
   created |-> created, pending |-> pendingSocketData]

\* mutant: the guard on this.clusterSocket dropped
ConnectToClusterUnguarded(sp) ==
  [sp EXCEPT !.clusterSocket = sp.created + 1,
             !.sock[sp.created + 1] = "connecting",
             !.created = sp.created + 1,
             !.pending = <<>>]

\* connectToCluster(): net.createConnection gives a new socket
ConnectToCluster(sp) ==
  IF sp.clusterSocket # 0
  THEN sp
  ELSE [sp EXCEPT !.clusterSocket = sp.created + 1,
                  !.sock[sp.created + 1] = "connecting",
                  !.created = sp.created + 1,
                  !.pending = <<>>]

\* connectToCluster can run: it creates no socket, or one within the bound
CanConnect(sp) == sp.clusterSocket # 0 \/ sp.created < MaxSockets

\* socket.destroy(): a socket not yet destroyed is destroyed and will emit 'close'
Destroy(sp, s) ==
  IF sp.sock[s] = "destroyed"
  THEN sp
  ELSE [sp EXCEPT !.sock[s] = "destroyed", !.closePending = sp.closePending \cup {s}]

\* setTimeout: a handle no pending timer has
NewTimer(ts) == CHOOSE t \in 1..(Cardinality(ts) + 1) :
                  t \notin ts /\ \A u \in 1..(t - 1) : u \in ts

\* mutant: the pending timer is not cleared before the next is set
ReconnectClusterNoClear(sp) ==
  LET sp1 == IF sp.clusterSocket # 0
             THEN [Destroy(sp, sp.clusterSocket) EXCEPT !.clusterSocket = 0]
             ELSE sp
      t == NewTimer(sp1.timers)
  IN [sp1 EXCEPT !.timers = sp1.timers \cup {t}, !.timeout = t]

\* mutant: a pending timer is cleared and no timer is set in its place
ReconnectClusterNoReschedule(sp) ==
  LET sp1 == IF sp.clusterSocket # 0
             THEN [Destroy(sp, sp.clusterSocket) EXCEPT !.clusterSocket = 0]
             ELSE sp
  IN IF sp1.timeout # 0
     THEN [sp1 EXCEPT !.timers = sp1.timers \ {sp1.timeout}, !.timeout = 0]
     ELSE [sp1 EXCEPT !.timers = sp1.timers \cup {NewTimer(sp1.timers)},
                      !.timeout = NewTimer(sp1.timers)]

\* reconnectCluster()
ReconnectCluster(sp) ==
  LET sp1 == IF sp.clusterSocket # 0
             THEN [Destroy(sp, sp.clusterSocket) EXCEPT !.clusterSocket = 0]
             ELSE sp
      cleared == IF sp1.timeout # 0 THEN sp1.timers \ {sp1.timeout} ELSE sp1.timers
      t == NewTimer(cleared)
  IN [sp1 EXCEPT !.timers = cleared \cup {t}, !.timeout = t]

\* the spoke's fields take the values of sp
Becomes(sp) ==
  /\ clusterSocket' = sp.clusterSocket
  /\ clusterConnectionTimeout' = sp.timeout
  /\ sock' = sp.sock
  /\ closePending' = sp.closePending
  /\ timers' = sp.timers
  /\ created' = sp.created
  /\ pendingSocketData' = sp.pending

\* the constructor of a collector node has called connectToCluster()
InitSpoke ==
  /\ LET sp == ConnectToCluster(SpokeNew) IN
       /\ clusterSocket = sp.clusterSocket
       /\ clusterConnectionTimeout = sp.timeout
       /\ sock = sp.sock
       /\ closePending = sp.closePending
       /\ timers = sp.timers
       /\ created = sp.created
       /\ pendingSocketData = sp.pending
  /\ welcomed = {}
  /\ closeRequested = FALSE

SpokeIdle ==
  /\ clusterSocket = 0
  /\ clusterConnectionTimeout = 0
  /\ sock = [s \in Sockets |-> "none"]
  /\ closePending = {}
  /\ welcomed = {}
  /\ timers = {}
  /\ created = 0
  /\ closeRequested = FALSE

\* the application calls connectToCluster() on the exported service (it does
\* not do so once it has called close())
AppConnect ==
  /\ ~closeRequested
  /\ CanConnect(SpokeState)
  /\ Becomes(ConnectToCluster(SpokeState))
  /\ UNCHANGED <<welcomed, closeRequested>>

\* 'connect' of socket s: the welcome frame is written to this.clusterSocket
\* (a socket that connects is not destroyed, so clusterSocket is set)
SocketConnect(s) ==
  /\ sock[s] = "connecting"
  /\ clusterSocket # 0
  /\ sock' = [sock EXCEPT ![s] = "connected"]
  /\ welcomed' = welcomed \cup {clusterSocket}
  /\ UNCHANGED <<pendingSocketData, clusterSocket, clusterConnectionTimeout,
                 closePending, timers, created, closeRequested>>

\* 'data' of socket s: parseSocketData with the callback that emits
SpokeData(s, chunk) ==
  /\ sock[s] \in {"connected", "ended"}
  /\ nData < MaxData
  /\ LET r == ParseSocketData("emit", pendingSocketData, chunk) IN
       /\ pendingSocketData' = r.pending
       /\ out' = out \o r.calls
  /\ nData' = nData + 1
  /\ UNCHANGED <<rx, sent, spokeVars>>

\* socket s fails (the connection is refused, or breaks): node destroys it,
\* emits 'error' here and 'close' later; the 'error' listener runs
SocketError(s) ==
  /\ sock[s] \in {"connecting", "connected", "ended"}
  /\ Becomes(ReconnectCluster(Destroy(SpokeState, s)))
  /\ UNCHANGED <<welcomed, closeRequested>>

\* the hub ends the connection of socket s: node closes it without an
\* error and the 'close' listener runs
SocketClosed(s) ==
  /\ sock[s] \in {"connected", "ended"}
  /\ Becomes(ReconnectCluster(
       [SpokeState EXCEPT !.sock[s] = "destroyed"]))
  /\ UNCHANGED <<welcomed, closeRequested>>

\* the 'close' event of a socket destroyed earlier: the 'close' listener runs
SocketCloseEvent(s) ==
  /\ s \in closePending
  /\ Becomes(ReconnectCluster(
       [SpokeState EXCEPT !.closePending = closePending \ {s}]))
  /\ UNCHANGED <<welcomed, closeRequested>>

\* timer t fires: the callback of setTimeout
TimerFire(t) ==
  /\ t \in timers
  /\ LET sp == [SpokeState EXCEPT !.timers = timers \ {t}, !.timeout = 0] IN
       /\ CanConnect(sp)
       /\ Becomes(ConnectToCluster(sp))
  /\ UNCHANGED <<welcomed, closeRequested>>

\* close(): the outbound socket, if any, is ended
AppClose ==
  /\ ~closeRequested
  /\ closeRequested' = TRUE
  /\ sock' = IF clusterSocket # 0 /\ sock[clusterSocket] \in {"connecting", "connected"}
             THEN [sock EXCEPT ![clusterSocket] = "ended"]
             ELSE sock
  /\ UNCHANGED <<pendingSocketData, clusterSocket, clusterConnectionTimeout,
                 closePending, welcomed, timers, created>>

\* the chunks the hub sends to the spoke
SpokeChunks == { <<"{", "a">>, <<"}", "#">> }

NextSpoke ==
  \/ AppConnect /\ UNCHANGED <<codecVars, hubVars>>
  \/ \E s \in Sockets : SocketConnect(s) /\ UNCHANGED <<codecVars, hubVars>>
  \/ \E s \in Sockets : \E chunk \in SpokeChunks :
       SpokeData(s, chunk)
         /\ UNCHANGED <<clusteredCollectors, socketState, socketMarkets,
                        socketIndexes, got, emitted, alone, want, errs>>
  \/ \E s \in Sockets : SocketError(s) /\ UNCHANGED <<codecVars, hubVars>>
  \/ \E s \in Sockets : SocketClosed(s) /\ UNCHANGED <<codecVars, hubVars>>
  \/ \E s \in Sockets : SocketCloseEvent(s) /\ UNCHANGED <<codecVars, hubVars>>
  \/ \E t \in timers : TimerFire(t) /\ UNCHANGED <<codecVars, hubVars>>
  \/ AppClose /\ UNCHANGED <<codecVars, hubVars>>

TimerFires == \E t \in timers : TimerFire(t) /\ UNCHANGED <<codecVars, hubVars>>

----------------------------------------------------------------------------
(* Codec specification: one buffer, fed arbitrary chunks *)

Chars == {"{", "}", "a", "0", "#"}

InitHub ==
  /\ pendingSocketData = <<>>
  /\ rx = <<>>
  /\ out = <<>>
  /\ sent = <<>>
  /\ HubIdle
  /\ SpokeIdle

NextHub ==
  \/ \E c \in Conns : Accept(c) /\ UNCHANGED <<codecVars, spokeVars>>
  \/ \E c \in Conns : \E chunk \in HubChunks :
       HubData(c, chunk) /\ UNCHANGED <<codecVars, spokeVars>>
  \/ \E c \in Conns : End(c) /\ UNCHANGED <<codecVars, spokeVars>>

InitCodec ==
  /\ pendingSocketData = <<>>
  /\ rx = <<>>
  /\ out = <<>>
  /\ sent = <<>>
  /\ HubIdle
  /\ SpokeIdle

\* one 'data' event: parseSocketData(callback, data), the callback recording
Feed(chunk) ==
  LET r == ParseSocketData("emit", pendingSocketData, chunk) IN
  /\ pendingSocketData' = r.pending
  /\ rx' = rx \o chunk
  /\ out' = out \o r.calls
  /\ UNCHANGED <<sent, hubVars, spokeVars>>

InitSpokeService ==
  /\ InitSpoke
  /\ rx = <<>>
  /\ out = <<>>
  /\ sent = <<>>
  /\ HubIdle

NextCodec ==
  \E k \in 1..(MaxStream - Len(rx)) : \E chunk \in [1..k -> Chars] : Feed(chunk)

\* the messages a peer encodes: op "a", up to two data tokens, among them
\* a string holding the delimiter
Messages ==
  { [op |-> "a", data |-> d] :
      d \in {<<>>} \cup { <<x>> : x \in {"0", "1", "#"} }
             \cup { <<x, y>> : x \in {"0", "#"}, y \in {"0", "#"} } }

\* a peer writes message m, and the whole write arrives as one 'data' event
Send(m) ==
  /\ sent' = Append(sent, m)
  /\ LET r == ParseSocketData("emit", pendingSocketData, Encode(m)) IN
       /\ pendingSocketData' = r.pending
       /\ rx' = rx \o Encode(m)
       /\ out' = out \o r.calls
  /\ UNCHANGED <<hubVars, spokeVars>>

\* chunks that are not one whole write: two frames at once, the halves of a
\* frame, a lone delimiter
WireChunks ==
  { <<"{", "a", "0", "}", "#", "{", "a", "}", "#">>,
    <<"{", "a">>, <<"}", "#">>, <<"#">> }

NextWire ==
  \/ \E m \in Messages : Len(rx) + Len(Encode(m)) <= MaxWire /\ Send(m)
  \/ \E chunk \in WireChunks : Len(rx) + Len(chunk) <= MaxWire /\ Feed(chunk)

vars == <<pendingSocketData, codecVars, hubVars, spokeVars>>

SpecCodec == InitCodec /\ [][NextCodec]_vars

SpecWire == InitCodec /\ [][NextWire]_vars

SpecHub == InitHub /\ [][NextHub]_vars

SpecSpoke == InitSpokeService /\ [][NextSpoke]_vars

\* the timer set by setTimeout fires once its delay has elapsed
SpecSpokeLive == SpecSpoke /\ WF_vars(TimerFires)

----------------------------------------------------------------------------
(* What a stream is, frame by frame *)

\* the payloads of the complete frames of s (s ends with the delimiter)
Frames(s) == SubSeq(Split(s), 1, Len(Split(s)) - 1)

\* a payload that is the encoding of a message and holds no delimiter
WellFormedPayload(p) ==
  /\ ~HasDelim(p)
  /\ JSONParse(p).ok
  /\ Truthy(JSONParse(p).json)

\* a concatenation of well-formed frames, each payload followed by one '#'
WellFormedStream(s) ==
  /\ Len(s) > 0
  /\ s[Len(s)] = Delim
  /\ \A i \in 1..Len(Frames(s)) : WellFormedPayload(Frames(s)[i])

\* C1: chunk-invariance: a well-formed stream fed in any partition into
\* chunks hands the callback the same messages as the stream fed whole.
ChunkInvariance ==
  WellFormedStream(rx) => out = ParseSocketData("emit", <<>>, rx).calls

\* a payload that fails to decode
Malformed(p) == Len(p) > 0 /\ ~JSONParse(p).ok

\* the messages of the well-formed frames of s, in order
MessagesOf(s) ==
  LET good == SelectSeq(Frames(s), WellFormedPayload)
  IN [i \in 1..Len(good) |-> JSONParse(good[i]).json]

\* C10: malformed frames are non-fatal: once a stream holding a malformed
\* complete frame has been received up to a delimiter, no message was emitted
\* for the malformed frame, the buffer is clear, and every well-formed frame
\* of the stream was decoded and emitted.
MalformedFrameNonFatal ==
  ( /\ Len(rx) > 0
    /\ rx[Len(rx)] = Delim
    /\ \E i \in 1..Len(Frames(rx)) : Malformed(Frames(rx)[i]) )
  => /\ pendingSocketData = <<>>
     /\ out = MessagesOf(rx)

----------------------------------------------------------------------------
(* Hub claims *)

InRegistry(c) == \E j \in 1..Len(clusteredCollectors) : clusteredCollectors[j] = c

\* a welcome message has been decoded from socket c
WelcomeDecoded(c) == \E i \in 1..Len(got[c]) : got[c][i].op = "w"

\* C2: per-connection reassembly: whatever the interleaving of the data
\* events, the messages decoded from each connection are those its own
\* chunks produce when fed alone.
PerConnectionReassembly == \A c \in Conns : got[c] = want[c]

\* C3: an accepted connection is in the registry if and only if it is open
\* and a welcome message was decoded from it.
RegistryCorrespondence ==
  \A c \in Conns : InRegistry(c) <=> (socketState[c] = "open" /\ WelcomeDecoded(c))

\* record j of the registry matches the identifier under the routing rule
HasSeparator(m) == \E i \in 1..Len(m) : m[i] = ":"

Matches(j, m) ==
  IF HasSeparator(m)
  THEN m \in socketMarkets[clusteredCollectors[j]].items
  ELSE m \in socketIndexes[clusteredCollectors[j]].items

\* C8: routing rule: the result is the first record, in registry order, whose
\* index set (no separator) or market set (separator) holds the identifier,
\* and none exactly when no record matches.
RoutingRule ==
  \A m \in Identifiers :
    LET hits == {j \in 1..Len(clusteredCollectors) : Matches(j, m)}
    IN IF hits = {}
       THEN GetNodeByMarket(m) = 0
       ELSE \E j \in hits : /\ \A k \in hits : j <= k
                            /\ GetNodeByMarket(m) = clusteredCollectors[j]

RoutingRuleWitness ==
  /\ Len(clusteredCollectors) = 2
  /\ clusteredCollectors[1] # clusteredCollectors[2]
  /\ GetNodeByMarket(<<"X", ":", "b">>) = clusteredCollectors[1]
  /\ GetNodeByMarket(<<"j">>) = clusteredCollectors[2]
  /\ GetNodeByMarket(<<"i">>) = clusteredCollectors[1]
  /\ GetNodeByMarket(<<"X", ":", "z">>) = 0

\* the market identifiers some registered record owns
OwnedMarkets ==
  UNION {socketMarkets[clusteredCollectors[j]].items : j \in 1..Len(clusteredCollectors)}

FindsOwner(m) ==
  /\ GetNodeByMarket(m) # 0
  /\ m \in socketMarkets[GetNodeByMarket(m)].items

\* C9 as stated: every market identifier of a registered record's market set,
\* "B-U" included, is routed to a record whose market set holds it.
MarketLookupFindsOwner == \A m \in OwnedMarkets : FindsOwner(m)

\* C9 amended: every market identifier holding the separator ':' that is in
\* the market set of a registered record is routed to a record whose market
\* set holds it, and the lookup of such an identifier gives none only when no
\* record's market set holds it.
NamespacedMarketLookupFindsOwner ==
  \A m \in Identifiers :
    HasSeparator(m) => IF m \in OwnedMarkets THEN FindsOwner(m)
                       ELSE GetNodeByMarket(m) = 0

NamespacedMarketLookupWitness ==
  /\ Len(clusteredCollectors) = 2
  /\ GetNodeByMarket(<<"Y", ":", "e">>) = clusteredCollectors[2]
  /\ GetNodeByMarket(<<"Y", ":", "e">>) # clusteredCollectors[1]
  /\ <<"B", "-", "U">> \in OwnedMarkets

----------------------------------------------------------------------------
(* Spoke claims *)

\* the outbound sockets that exist and have not been destroyed
LiveSockets == {s \in Sockets : sock[s] \notin {"none", "destroyed"}}

\* C4: single outbound connection: at most one outbound socket that has not
\* been destroyed exists, and it is the one this.clusterSocket holds; a
\* connectToCluster call while clusterSocket is set creates none.
SingleOutboundConnection ==
  /\ Cardinality(LiveSockets) <= 1
  /\ \A s \in LiveSockets : clusterSocket = s

\* a second socket exists and is connected after the first was destroyed
SingleOutboundConnectionWitness ==
  /\ created = 2
  /\ sock[1] = "destroyed"
  /\ sock[2] = "connected"
  /\ clusterSocket = 2

\* C5: single reconnection timer: after any sequence of close and error
\* events at most one timer is pending, the one the service holds, so a burst
\* of failure events is followed by one connectToCluster call, not several.
SingleReconnectionTimer ==
  /\ Cardinality(timers) <= 1
  /\ \A t \in timers : clusterConnectionTimeout = t

\* socket 1 failed before it connected, and both its 'error' and its 'close'
\* were handled before the timer fired
SingleReconnectionTimerWitness ==
  /\ created = 1
  /\ sock[1] = "destroyed"
  /\ 1 \notin welcomed
  /\ ~closeRequested
  /\ closePending = {}
  /\ Cardinality(timers) = 1

\* C6: explicit shutdown is terminal: from the close() call on, no
\* reconnection timer is pending and no outbound socket is created.
ShutdownTerminal ==
  [][closeRequested' => (timers' = {} /\ created' = created)]_vars

\* C7: reconnection liveness: the spoke is never left with neither an
\* outbound socket nor a pending timer, and whenever a close or error event
\* has left it without a socket, connectToCluster later creates one (the
\* timer firing once its delay has elapsed, and a socket being left to create
\* within MaxSockets).
ReconnectionLiveness ==
  /\ [](clusterSocket # 0 \/ timers # {})
  /\ (clusterSocket = 0 /\ created < MaxSockets) ~> (clusterSocket # 0)

\* after a failure of socket 1 and no shutdown, socket 2 has been created
ReconnectionLivenessWitness ==
  /\ ~closeRequested
  /\ sock[1] = "destroyed"
  /\ created = 2
  /\ clusterSocket = 2
  /\ timers = {}


----------------------------------------------------------------------------
(* Handler failures, dispatch, round trip *)

\* the chunk the step appended to the received stream
Arrived == SubSeq(rx', Len(rx) + 1, Len(rx'))

\* s without its leading delimiters
RECURSIVE StripLeading(_)
StripLeading(s) ==
  IF Len(s) > 0 /\ s[1] = Delim THEN StripLeading(Tail(s)) ELSE s

\* the messages of the complete segments of text that decode to a message
DecodedOf(text) ==
  LET segs == Split(text)
      good == SelectSeq(SubSeq(segs, 1, Len(segs) - 1),
                        LAMBDA p : JSONParse(p).ok /\ Truthy(JSONParse(p).json))
  IN [i \in 1..Len(good) |-> JSONParse(good[i]).json]

\* the part of text after its last delimiter
TailOf(text) == Split(text)[Len(Split(text))]

\* C11: handler failures are isolated: whether or not the handler throws on
\* a message, every chunk hands the callback all the messages of its complete
\* frames, the throwing ones and those after them, and leaves in the buffer
\* only the incomplete tail.
HandlerFailuresIsolated ==
  [][LET text == pendingSocketData \o StripLeading(Arrived)
     IN /\ out' = out \o DecodedOf(text)
        /\ pendingSocketData' = TailOf(text)]_vars

\* the handler threw on a message and a later message was handed to it
HandlerFailuresIsolatedWitness ==
  \E i \in 1..Len(out) :
    /\ CallbackThrows("emit", out[i])
    /\ i < Len(out)
    /\ ~CallbackThrows("emit", out[i + 1])
    /\ pendingSocketData = <<>>

\* the ops of the messages of js that are not welcome messages
NonWelcomeOps(js) ==
  LET nw == SelectSeq(js, LAMBDA j : j.op # "w")
  IN [i \in 1..Len(nw) |-> nw[i].op]

\* the messages the step decoded from socket c
Decoded(c) == SubSeq(got'[c], Len(got[c]) + 1, Len(got'[c]))

\* C12: hub dispatch rule: the events emitted for a connection are exactly
\* the ops of its decoded messages other than welcome, in order, whether or
\* not the connection is registered; a step that decodes no welcome message
\* and ends no connection leaves the registry as it was.
HubDispatchRule ==
  [][\A c \in Conns :
       /\ emitted'[c] = NonWelcomeOps(got'[c])
       /\ ( /\ socketState' = socketState
            /\ \A i \in 1..Len(Decoded(c)) : Decoded(c)[i].op # "w"
            /\ \A d \in Conns \ {c} : got'[d] = got[d] )
          => clusteredCollectors' = clusteredCollectors]_vars

\* a message of a connection that is not registered was emitted, and one of
\* a registered connection
HubDispatchRuleWitness ==
  /\ \E c \in Conns : emitted[c] # <<>> /\ ~WelcomeDecoded(c) /\ ~InRegistry(c)
  /\ \E c \in Conns : emitted[c] # <<>> /\ WelcomeDecoded(c) /\ InRegistry(c)

\* the message the step encoded and wrote
Written == sent'[Len(sent')]

\* the (op, data) pairs emitted for the messages js
OpData(js) == [i \in 1..Len(js) |-> [op |-> js[i].op, data |-> js[i].data]]

\* C13 as stated: every message, encoded, followed by '#' and fed to an
\* empty buffer, is handed to the callback once, with its op and its data.
RoundTrip ==
  [][(Len(sent') = Len(sent) + 1 /\ pendingSocketData = <<>>)
       => OpData(out') = Append(OpData(out), Written)]_vars

\* C13: round trip of the messages whose encoding holds no delimiter.
DelimiterFreeRoundTrip ==
  [][( /\ Len(sent') = Len(sent) + 1
       /\ pendingSocketData = <<>>
       /\ \A i \in 1..Len(Written.data) : Written.data[i] # Delim )
       => OpData(out') = Append(OpData(out), Written)]_vars

\* messages with data were written to an empty buffer and came out equal
DelimiterFreeRoundTripWitness ==
  /\ Len(sent) = 2
  /\ OpData(out) = sent
  /\ sent[1].data = <<"1">>
  /\ sent[2].data = <<"0">>

----------------------------------------------------------------------------
(* Timer and connection; stale events *)

\* C14: a successful connection cancels the pending timer: no reconnection
\* timer is pending while the outbound connection is established.
NoTimerWhileConnected ==
  ~( /\ clusterSocket # 0
     /\ sock[clusterSocket] = "connected"
     /\ timers # {} )

\* C19: events act only on the connection that emitted them: the 'close'
\* event of a socket that was destroyed and replaced leaves the current
\* connection as it is.
StaleEventSparesCurrent ==
  [][\A s \in closePending \ closePending' :
       ( /\ clusterSocket # 0
         /\ clusterSocket # s
         /\ sock[clusterSocket] \in {"connecting", "connected"} )
       => sock'[clusterSocket] = sock[clusterSocket]]_vars

----------------------------------------------------------------------------
(* Registry and buffers of the hub *)

\* C15 as stated: a frame that fails to decode on a registered connection
\* removes the connection's record.
DecodeErrorRemovesRecord ==
  [][\A c \in Conns :
       (Len(errs'[c]) > Len(errs[c]) /\ InRegistry(c))
       => \A j \in 1..Len(clusteredCollectors') : clusteredCollectors'[j] # c]_vars

\* C15: a frame that fails to decode leaves the registry as it was: the
\* record of a registered connection stays.
DecodeErrorKeepsRecord ==
  [][\A c \in Conns :
       Len(errs'[c]) > Len(errs[c]) => clusteredCollectors' = clusteredCollectors]_vars

\* a frame of a registered connection failed to decode
DecodeErrorKeepsRecordWitness ==
  \E c \in Conns :
    /\ InRegistry(c)
    /\ \E i \in 1..Len(errs[c]) : errs[c][i]

\* C17: accepting a connection has no effect on the bytes buffered for the
\* other connections.
AcceptLeavesBuffers ==
  [][(\E c \in Conns : socketState[c] = "none" /\ socketState'[c] = "open")
       => pendingSocketData' = pendingSocketData]_vars

\* the number of records of socket c in the registry
Records(c) == Len(SelectSeq(clusteredCollectors, LAMBDA x : x = c))

\* C18: a connection is registered at most once, and not at all once its
\* 'end' was handled.
RegisteredAtMostOnce ==
  \A c \in Conns :
    /\ Records(c) <= 1
    /\ socketState[c] = "destroyed" => Records(c) = 0

----------------------------------------------------------------------------
(* The buffer and the delimiter *)

\* C16: the buffer is empty after any chunk whose last character is '#'.
BufferEmptyAfterCompleteTail ==
  (Len(rx) > 0 /\ rx[Len(rx)] = Delim) => pendingSocketData = <<>>

NoDelimiter(s) == \A i \in 1..Len(s) : s[i] # "#"

\* C20: the reassembly buffer never holds the delimiter, and no string
\* handed to JSON.parse holds it.
BufferHoldsNoDelimiter ==
  [][/\ NoDelimiter(pendingSocketData')
     /\ LET parsed == ParseSocketData("emit", pendingSocketData, Arrived).parsed
        IN \A i \in 1..Len(parsed) : NoDelimiter(parsed[i])]_vars

\* delimiters arrived, between frames and doubled, a frame was handed to
\* JSON.parse and a tail is buffered
BufferHoldsNoDelimiterWitness ==
  /\ pendingSocketData # <<>>
  /\ Len(out) > 0
  /\ \E i \in 1..(Len(rx) - 1) : rx[i] = Delim /\ rx[i + 1] = Delim

====
